---- MODULE Spec2Model ----
(***************************************************************************)
(* A model of three parts of cppunit:                                      *)
(*   - the composite test tree (TestSuite.cpp): addTest, run,              *)
(*     countTestCases;                                                     *)
(*   - the expectation engine (MockTestListener.cpp);                      *)
(*   - the plug-in runner (DllPlugInTester.cpp): runTests and main.        *)
(* Each part has its own specification (SpecSuite, SpecMock, SpecRun) over *)
(* its own variables; the variables of the other parts keep their initial  *)
(* value.                                                                  *)
(***************************************************************************)
EXTENDS Integers, Sequences, FiniteSets, TLC

VARIABLES
  \* ---- composite test tree
  m_tests,      \* TestSuite::m_tests, per suite: the vector of child tests
  phase,        \* "build" (addTest calls), "running" (inside run), "done",
                \* or "teardown" (deleteContents and destructor calls)
  stack,        \* the call chain of TestSuite::run: frames [suite, it]
  m_stop,       \* TestResult's "should stop" flag
  ran,          \* per suite: the children run(result) was delegated to, in order
  added,        \* per suite: the tests handed to addTest, in call order
  events,       \* the notifications the TestResult received, in order
  finished,     \* the suites whose run(result) has returned
  deleted,      \* per test object: how many times it was deleted
  \* ---- MockTestListener; a field per event is a function of the event
  hasExpectation,            \* m_hasExpectationFor<Event>
  hasParametersExpectation,  \* m_hasParametersExpectationFor<Event>
  expectedCallCount,         \* m_expected<Event>CallCount
  callCount,                 \* m_<event>Call, the observed count
  expectedTest,              \* m_expected<Event>, m_expectedFailedTest
  m_hasExpectationForSomeFailure,
  m_expectedException,
  m_expectedIsError,
  thrown,        \* the assertion message the last call on the mock raised,
                 \* "" for none
  verified,      \* the last call on the mock was verify()
  notified,      \* per event: the notifications received since construction
  setupsCalled,  \* the setExpect* methods called since construction
  earlyNotified, \* the events notified before any setExpect* call for them
  lastMismatch,  \* the last notification carried arguments other than the
                 \* parameter expectation of its event
  anyMismatch,   \* some notification did
  \* ---- DllPlugInTester: main and runTests
  pc,            \* the statement main or runTests is at
  cmd,           \* the command line: what argc and the parser say of it
  scope,         \* the automatic objects of runTests, in construction order
  alive,         \* the objects constructed and not destroyed
  destroyed,     \* the objects destroyed, in the order of destruction
  index,         \* the plug-in loop's index
  plugIns,       \* the plug-ins the PlugInManager holds, in load order
  unloaded,      \* the plug-ins whose library has been unloaded
  listeners,     \* the listeners registered on the controller, in order
  listenerCalls, \* the PlugInManager::addListener/removeListener calls
  hookCalls,     \* the add/removeXmlOutputterHooks calls
  written,       \* the outputters written, in order
  xmlStream,     \* "unset", "shared" (= stream), "file" (new ofstream), "deleted"
  ranTests,      \* runner.run was called
  wasSuccessful, \* the local of runTests, then of main
  exception,     \* the exception in flight, "" for none
  exitCode,      \* what main returned, -1 while it runs
  loadCalls,     \* the PlugInManager::load calls: plug-in number and outcome
  reported,      \* the failures main and runTests wrote to std::cerr
  runResult,     \* how runner.run ended, "" before it
  \* ---- TestSuiteBuilder
  builder,       \* "none" (not constructed), "alive", "destroyed", or
                 \* "crashed" (a call through the empty m_suite ended the run)
  m_suite,       \* TestSuiteBuilder::m_suite: the suite held, or NULL
  m_name,        \* TestSuite::m_name, per suite
  callerName,    \* per leaf: the name makeTestCaller was given, "" for none
  built,         \* the suite the builder was constructed on
  taken,         \* the pointers takeSuite() returned
  builderCalls   \* the addTest and addTestCaller calls on the builder

suiteVars == <<m_tests, phase, stack, m_stop, ran, added, events, finished,
              deleted>>

mockFields == <<hasExpectation, hasParametersExpectation, expectedCallCount,
                callCount, expectedTest, m_hasExpectationForSomeFailure,
                m_expectedException, m_expectedIsError>>

mockVars == <<mockFields, thrown, verified, notified, setupsCalled, earlyNotified,
              lastMismatch, anyMismatch>>

runVars == <<pc, cmd, scope, alive, destroyed, index, plugIns, unloaded,
             listeners, listenerCalls, hookCalls, written, xmlStream,
             ranTests, wasSuccessful, exception, exitCode, loadCalls,
             reported, runResult>>

builderVars == <<builder, m_suite, m_name, callerName, built, taken,
                 builderCalls>>

vars == <<suiteVars, mockVars, runVars, builderVars>>

-----------------------------------------------------------------------------
(* Bounds of the model *)
NumSuites == 2
NumLeaves == 2
MaxNulls == 1           \* addTest calls that hand over a null pointer

NULL == 0

Suites == 1..NumSuites
Leaves == (NumSuites + 1)..(NumSuites + NumLeaves)
Tests  == Suites \cup Leaves

-----------------------------------------------------------------------------
(* Composite test tree: TestSuite.cpp *)

RECURSIVE countTestCases(_)
RECURSIVE CountLoop(_, _, _)
RECURSIVE Descendants(_)

\* The test that owns t (the suites holding t in m_tests).
Owners(t) == {s \in Suites : \E i \in 1..Len(m_tests[s]) : m_tests[s][i] = t}

\* The tests below t in the tree, t excluded.
Descendants(t) ==
  IF t \in Leaves THEN {}
  ELSE LET kids == {m_tests[t][i] : i \in 1..Len(m_tests[t])} \ {NULL}
       IN  kids \cup UNION {Descendants(k) : k \in kids}

\* TestCase::countTestCases: a leaf counts for one.
LeafCountTestCases(t) == 1

\* The loop of TestSuite::countTestCases from iterator position i with the
\* running total count: count += (*it)->countTestCases().
CountLoop(tests, i, count) ==
  IF i > Len(tests) THEN count
  ELSE CountLoop(tests, i + 1, count + countTestCases(tests[i]))

\* A count that starts the iteration one child late.
MutSuiteCountSkipsFirst(s) == CountLoop(m_tests[s], 2, 0)

\* TestSuite::countTestCases: int count = 0; for each child ...; return count.
SuiteCountTestCases(s) == CountLoop(m_tests[s], 1, 0)

\* Test::countTestCases, dispatched on the variant.
countTestCases(t) ==
  IF t \in Leaves THEN LeafCountTestCases(t) ELSE SuiteCountTestCases(t)

\* The steps of the test tree leave the other parts alone.
OnlySuite == UNCHANGED <<mockVars, runVars, builderVars>>

\* TestSuite::TestSuite: a suite starts with no tests.
SuiteInit ==
  /\ m_tests = [s \in Suites |-> <<>>]
  /\ phase = "build"
  /\ stack = <<>>
  /\ m_stop = FALSE
  /\ ran = [s \in Suites |-> <<>>]
  /\ added = [s \in Suites |-> <<>>]
  /\ events = <<>>
  /\ finished = {}
  /\ deleted = [t \in Tests |-> 0]

\* An addTest that puts the new test in front.
MutPushFront(tests, test) == <<test>> \o tests

\* What TestSuite::addTest does to the vector: m_tests.push_back(test).
PushBack(tests, test) == Append(tests, test)

\* TestSuite::addTest(test) on suite s, a live object.  The caller hands over
\* a live test that no suite owns yet and that is not the root of the tree s
\* is in (ownership is exclusive and the tree has no cycle), or a null
\* pointer: addTest looks at neither.
AddTestTo(s, test) ==
  /\ phase = "build"
  /\ deleted[s] = 0
  /\ test # NULL =>
       /\ test # s
       /\ deleted[test] = 0
       /\ Owners(test) = {}
       /\ s \notin Descendants(test)
  /\ m_tests' = [m_tests EXCEPT ![s] = PushBack(@, test)]
  /\ added' = [added EXCEPT ![s] = Append(@, test)]

\* TestSuite::addTest called on suite s by its holder.
addTest(s, test) ==
  /\ AddTestTo(s, test)
  /\ UNCHANGED <<phase, stack, m_stop, ran, events, finished, deleted>>
  /\ OnlySuite

RECURSIVE DeleteContents(_, _)
RECURSIVE DeleteLoop(_, _, _)
RECURSIVE Delete(_, _)

\* A deleteContents that leaves the vector as it is.
MutNoClear(tests) == tests

\* TestSuite::deleteContents: m_tests.clear().
Clear(tests) == <<>>

\* TestSuite::deleteContents on suite s in heap h (del: the deletions of each
\* object, kids: the m_tests of each suite): the loop, then the clear.
DeleteContents(h, s) ==
  LET after == DeleteLoop(h, h.kids[s], 1)
  IN  [after EXCEPT !.kids[s] = Clear(@)]

\* The loop of deleteContents from iterator position i: delete *it.
DeleteLoop(h, tests, i) ==
  IF i > Len(tests) THEN h
  ELSE DeleteLoop(Delete(h, tests[i]), tests, i + 1)

\* delete t: nothing for a null pointer; for a suite, TestSuite::~TestSuite
\* runs deleteContents first.
Delete(h, t) ==
  IF t = NULL THEN h
  ELSE LET after == IF t \in Suites THEN DeleteContents(h, t) ELSE h
       IN  [after EXCEPT !.del[t] = @ + 1]

Heap == [del |-> deleted, kids |-> m_tests]

\* TestSuite::deleteContents() called on suite s, a live object, once the
\* tree is built.
deleteContents(s) ==
  /\ phase \in {"build", "teardown"}
  /\ phase' = "teardown"
  /\ deleted[s] = 0
  /\ LET after == DeleteContents(Heap, s)
     IN  /\ deleted' = after.del
         /\ m_tests' = after.kids
  /\ UNCHANGED <<stack, m_stop, ran, added, events, finished>>
  /\ OnlySuite

\* TestSuite::~TestSuite: the owner of suite s, which no suite holds, deletes
\* it.
DestroySuite(s) ==
  /\ phase \in {"build", "teardown"}
  /\ phase' = "teardown"
  /\ deleted[s] = 0
  /\ Owners(s) = {}
  /\ LET after == Delete(Heap, s)
     IN  /\ deleted' = after.del
         /\ m_tests' = after.kids
  /\ UNCHANGED <<stack, m_stop, ran, added, events, finished>>
  /\ OnlySuite

\* The null pointers handed to addTest so far.
NullsAdded ==
  Cardinality({<<s, i>> \in Suites \X (1..(NumSuites + NumLeaves + MaxNulls)) :
                 i <= Len(added[s]) /\ added[s][i] = NULL})

\* addTest called with any pointer, a null one MaxNulls times at most.
addTestOrNull(s, test) ==
  /\ test = NULL => NullsAdded < MaxNulls
  /\ addTest(s, test)

\* Building a tree, addTest with any pointer, and then tearing it down,
\* deleteContents and destruction in any order.
TreeNext ==
  \/ \E s \in Suites, t \in Tests \cup {NULL} : addTestOrNull(s, t)
  \/ \E s \in Suites : deleteContents(s)
  \/ \E s \in Suites : DestroySuite(s)

\* The runner calls run(result) on a suite: the iterator starts at begin().
RunnerRun(s) ==
  /\ phase = "build"
  /\ phase' = "running"
  /\ stack' = <<[suite |-> s, it |-> 1]>>
  /\ UNCHANGED <<m_tests, m_stop, ran, added, events, finished, deleted>>
  /\ OnlySuite

\* TestResult::stop, called by a listener or from outside at any time.
Stop ==
  /\ phase # "done"
  /\ ~m_stop
  /\ m_stop' = TRUE
  /\ UNCHANGED <<m_tests, phase, stack, ran, added, events, finished, deleted>>
  /\ OnlySuite

Top == stack[Len(stack)]

\* The tests for which the TestResult received a failure or an error.
FailedTests == {events[k].test : k \in {i \in 1..Len(events) : events[i].ev = "addFailure"}}

\* Whether child c of a suite, or a test below it, has a recorded failure.
ChildFailed(c) == ({c} \cup Descendants(c)) \cap FailedTests # {}

\* A loop that gives up on the suite once a child has failed.
MutBreakOnFailure(s, it) ==
  IF \E k \in 1..Len(events') :
       /\ events'[k].ev = "addFailure"
       /\ events'[k].test \in {m_tests[s][it]} \cup Descendants(m_tests[s][it])
  THEN Len(m_tests[s]) + 1
  ELSE it + 1

\* TestSuite::run: the ++it of the for loop, once test->run(result) is back.
NextIt(s, it) == it + 1

\* A frame of TestSuite::run returns to its caller: the caller's ++it, or the
\* end of the whole run.
Return ==
  LET rest == SubSeq(stack, 1, Len(stack) - 1)
  IN  /\ finished' = finished \cup {Top.suite}
      /\ IF rest = <<>>
         THEN /\ stack' = <<>>
              /\ phase' = "done"
         ELSE /\ stack' = [rest EXCEPT ![Len(rest)].it =
                                NextIt(rest[Len(rest)].suite, @)]
              /\ phase' = "running"

\* TestSuite::run: it == m_tests.end(), the loop is over.
SuiteRunEnd ==
  /\ phase = "running"
  /\ Top.it > Len(m_tests[Top.suite])
  /\ UNCHANGED <<m_tests, m_stop, ran, added, events, deleted>>
  /\ Return
  /\ OnlySuite

\* A run that does not consult the flag.
MutNeverBreaks == FALSE

\* TestSuite::run: if (result->shouldStop()) break;
ShouldStopBreaks == m_stop

\* TestSuite::run: the break out of the loop.
SuiteRunBreak ==
  /\ phase = "running"
  /\ Top.it <= Len(m_tests[Top.suite])
  /\ ShouldStopBreaks
  /\ UNCHANGED <<m_tests, m_stop, ran, added, events, deleted>>
  /\ Return
  /\ OnlySuite

Outcomes == {"pass", "failure", "error"}

\* TestCase::run on leaf c, as the TestResult sees it: startTest, the failure
\* or the error the test body raised (caught inside the leaf), endTest.
LeafEvents(c, outcome) ==
  <<[ev |-> "startTest", test |-> c, isError |-> FALSE]>>
  \o (IF outcome = "pass" THEN <<>>
      ELSE <<[ev |-> "addFailure", test |-> c, isError |-> (outcome = "error")]>>)
  \o <<[ev |-> "endTest", test |-> c, isError |-> FALSE]>>

\* TestSuite::run: Test *test = *it; test->run(result); for a nested suite.
SuiteRunChildSuite ==
  /\ phase = "running"
  /\ Top.it <= Len(m_tests[Top.suite])
  /\ ~ShouldStopBreaks
  /\ LET c == m_tests[Top.suite][Top.it]
     IN  /\ c \in Suites
         /\ ran' = [ran EXCEPT ![Top.suite] = Append(@, c)]
         /\ stack' = Append(stack, [suite |-> c, it |-> 1])
  /\ UNCHANGED <<m_tests, phase, m_stop, added, events, finished, deleted>>
  /\ OnlySuite

\* TestSuite::run: Test *test = *it; test->run(result); for a leaf test case,
\* whose run is one step: it reports its outcome to the result and returns.
SuiteRunChildLeaf(outcome) ==
  /\ phase = "running"
  /\ Top.it <= Len(m_tests[Top.suite])
  /\ ~ShouldStopBreaks
  /\ LET c == m_tests[Top.suite][Top.it]
     IN  /\ c \in Leaves
         /\ ran' = [ran EXCEPT ![Top.suite] = Append(@, c)]
         /\ events' = events \o LeafEvents(c, outcome)
         /\ stack' = [stack EXCEPT ![Len(stack)].it = NextIt(Top.suite, @)]
  /\ UNCHANGED <<m_tests, phase, m_stop, added, finished, deleted>>
  /\ OnlySuite

SuiteNext ==
  \/ \E s \in Suites, t \in Tests : addTest(s, t)
  \/ \E s \in Suites : RunnerRun(s)
  \/ Stop
  \/ SuiteRunEnd
  \/ SuiteRunBreak
  \/ SuiteRunChildSuite
  \/ \E o \in Outcomes : SuiteRunChildLeaf(o)

-----------------------------------------------------------------------------
(* Expectation engine: MockTestListener.cpp *)

(* Bounds of the model *)
NumMockTests == 1       \* the Test pointers a call may carry: NULL and 1..NumMockTests
NumExceptions == 1      \* the Exception pointers: NULL and 1..NumExceptions
MaxCallCount == 2       \* the counts given to setExpected<Event>Call
MaxSetupCalls == 1      \* distinct setExpect* methods called in one scenario
MaxNotifications == 2   \* notifications in one scenario

TestEvents == {"startTest", "endTest", "startSuite", "endSuite"}
MockEvents == TestEvents \cup {"addFailure"}
MockTests == {NULL} \cup (1..NumMockTests)
MockExceptions == {NULL} \cup (1..NumExceptions)
CallCounts == 0..MaxCallCount

\* m_expectedStartTest, m_expectedEndTest, m_expectedStartSuite and
\* m_expectedEndSuite are left unset by the constructor; they are read only
\* under m_hasParametersExpectationFor<Event>, which is set together with them.
Unset == -1

\* MockTestListener::MockTestListener
MockInit ==
  /\ hasExpectation = [e \in MockEvents |-> FALSE]
  /\ hasParametersExpectation = [e \in MockEvents |-> FALSE]
  /\ expectedCallCount = [e \in MockEvents |-> 0]
  /\ callCount = [e \in MockEvents |-> 0]
  /\ expectedTest = [e \in MockEvents |-> IF e = "addFailure" THEN NULL ELSE Unset]
  /\ m_hasExpectationForSomeFailure = FALSE
  /\ m_expectedException = NULL
  /\ m_expectedIsError = FALSE
  /\ thrown = ""
  /\ verified = FALSE
  /\ notified = [e \in MockEvents |-> 0]
  /\ setupsCalled = {}
  /\ earlyNotified = {}
  /\ lastMismatch = FALSE
  /\ anyMismatch = FALSE

\* The steps of the mock leave the other parts alone.
OnlyMock == UNCHANGED <<suiteVars, runVars, builderVars>>

\* The setExpect* methods that concern event e.
SetupsOf(e) ==
  IF e = "addFailure"
  THEN {"setExpectFailure3", "setExpectNoFailure", "setExpectFailure0",
        "setExpectedAddFailureCall"}
  ELSE {"setExpect_" \o e, "setExpectedCall_" \o e}

\* A setExpect* call: it is recorded; it asserts nothing.
Setup(name, e) ==
  /\ Cardinality(setupsCalled) < MaxSetupCalls \/ name \in setupsCalled
  /\ setupsCalled' = setupsCalled \cup {name}
  /\ thrown' = ""
  /\ verified' = FALSE
  /\ UNCHANGED <<callCount, notified, earlyNotified, lastMismatch,
                 anyMismatch>>
  /\ OnlyMock

\* MockTestListener::setExpectFailure(failedTest, thrownException, isError)
setExpectFailure3(failedTest, thrownException, isError) ==
  /\ hasExpectation' = [hasExpectation EXCEPT !["addFailure"] = TRUE]
  /\ hasParametersExpectation' =
       [hasParametersExpectation EXCEPT !["addFailure"] = TRUE]
  /\ expectedCallCount' = [expectedCallCount EXCEPT !["addFailure"] = 1]
  /\ expectedTest' = [expectedTest EXCEPT !["addFailure"] = failedTest]
  /\ m_expectedException' = thrownException
  /\ m_expectedIsError' = isError
  /\ UNCHANGED m_hasExpectationForSomeFailure
  /\ Setup("setExpectFailure3", "addFailure")

\* MockTestListener::setExpectNoFailure
setExpectNoFailure ==
  /\ hasExpectation' = [hasExpectation EXCEPT !["addFailure"] = TRUE]
  /\ expectedCallCount' = [expectedCallCount EXCEPT !["addFailure"] = 0]
  /\ UNCHANGED <<hasParametersExpectation, expectedTest, m_expectedException,
                 m_expectedIsError, m_hasExpectationForSomeFailure>>
  /\ Setup("setExpectNoFailure", "addFailure")

\* MockTestListener::setExpectFailure()
setExpectFailure0 ==
  /\ m_hasExpectationForSomeFailure' = TRUE
  /\ UNCHANGED <<hasExpectation, hasParametersExpectation, expectedCallCount,
                 expectedTest, m_expectedException, m_expectedIsError>>
  /\ Setup("setExpectFailure0", "addFailure")

\* MockTestListener::setExpectedAddFailureCall(callCount)
setExpectedAddFailureCall(n) ==
  /\ hasExpectation' = [hasExpectation EXCEPT !["addFailure"] = TRUE]
  /\ expectedCallCount' = [expectedCallCount EXCEPT !["addFailure"] = n]
  /\ UNCHANGED <<hasParametersExpectation, expectedTest, m_expectedException,
                 m_expectedIsError, m_hasExpectationForSomeFailure>>
  /\ Setup("setExpectedAddFailureCall", "addFailure")

\* MockTestListener::setExpectStartTest, setExpectEndTest,
\* setExpectStartSuite, setExpectEndSuite (test)
setExpectTest(e, test) ==
  /\ hasExpectation' = [hasExpectation EXCEPT ![e] = TRUE]
  /\ hasParametersExpectation' = [hasParametersExpectation EXCEPT ![e] = TRUE]
  /\ expectedCallCount' = [expectedCallCount EXCEPT ![e] = 1]
  /\ expectedTest' = [expectedTest EXCEPT ![e] = test]
  /\ UNCHANGED <<m_expectedException, m_expectedIsError,
                 m_hasExpectationForSomeFailure>>
  /\ Setup("setExpect_" \o e, e)

\* MockTestListener::setExpectedStartTestCall, setExpectedEndTestCall,
\* setExpectedStartSuiteCall, setExpectedEndSuiteCall (callCount)
setExpectedCall(e, n) ==
  /\ hasExpectation' = [hasExpectation EXCEPT ![e] = TRUE]
  /\ expectedCallCount' = [expectedCallCount EXCEPT ![e] = n]
  /\ UNCHANGED <<hasParametersExpectation, expectedTest, m_expectedException,
                 m_expectedIsError, m_hasExpectationForSomeFailure>>
  /\ Setup("setExpectedCall_" \o e, e)

\* One notification in a scenario of at most MaxNotifications.
MayNotify ==
  notified["startTest"] + notified["endTest"] + notified["startSuite"]
    + notified["endSuite"] + notified["addFailure"] < MaxNotifications

\* The bookkeeping of a notification of event e.
Notification(e, mismatch) ==
  /\ MayNotify
  /\ notified' = [notified EXCEPT ![e] = @ + 1]
  /\ earlyNotified' =
       IF setupsCalled \cap SetupsOf(e) = {} THEN earlyNotified \cup {e}
       ELSE earlyNotified
  /\ verified' = FALSE
  /\ lastMismatch' = mismatch
  /\ anyMismatch' = (anyMismatch \/ mismatch)
  /\ UNCHANGED <<hasExpectation, hasParametersExpectation, expectedCallCount,
                 expectedTest, m_hasExpectationForSomeFailure,
                 m_expectedException, m_expectedIsError, setupsCalled>>
  /\ OnlyMock

\* An over-call check that lets one call too many through.
MutWithinExpectedOffByOne(call, expected) == call <= expected + 1

\* The condition of the "unexpected call" assertion of the five notification
\* methods: m_<event>Call <= m_expected<Event>CallCount.
WithinExpected(call, expected) == call <= expected

\* The parameter assertion of startTest, endTest, startSuite and endSuite:
\* CPPUNIT_ASSERT_MESSAGE( "bad test", m_expected<Event> == test ).
TestParameterThrown(e, test) ==
  IF hasParametersExpectation[e] /\ ~(expectedTest[e] = test)
  THEN "bad test" ELSE ""

\* A notification whose failed assertion leaves the counter as it was.
MutIncrementAfterAssert(call, expected) ==
  IF call <= expected THEN call ELSE call - 1

\* The counter of an event once its notification method has returned or
\* thrown: ++m_<event>Call comes before the assertions, so it stays
\* incremented when one of them throws.
CounterAfterCall(call, expected) == call

\* A notification counted without an expectation.
MutCountsAlways(e) == TRUE

\* startTest, endTest, startSuite, endSuite: the condition of ++m_<event>Call.
TestEventCounts(e) == hasExpectation[e]

\* MockTestListener::startTest, endTest, startSuite, endSuite (test)
notifyTest(e, test) ==
  LET call == IF TestEventCounts(e) THEN callCount[e] + 1 ELSE callCount[e]
  IN  /\ callCount' =
           [callCount EXCEPT ![e] = CounterAfterCall(call, expectedCallCount[e])]
      /\ thrown' =
           IF hasExpectation[e] /\ ~WithinExpected(call, expectedCallCount[e])
           THEN "unexpected call"
           ELSE TestParameterThrown(e, test)
      /\ Notification(e, hasParametersExpectation[e] /\ test # expectedTest[e])

\* An addFailure that counts under a count expectation only.
MutCountsOnlyWithCountExpectation == hasExpectation["addFailure"]

\* MockTestListener::addFailure: the condition of ++m_addFailureCall.
AddFailureCounts ==
  hasExpectation["addFailure"] \/ m_hasExpectationForSomeFailure

\* A parameter check without the isError assertion.
MutIsErrorUnchecked(test, thrownException, isError) ==
  IF ~hasParametersExpectation["addFailure"] THEN ""
  ELSE IF ~(expectedTest["addFailure"] = test) THEN "bad test"
  ELSE IF ~(m_expectedException = thrownException) THEN "bad thrownException"
  ELSE ""

\* MockTestListener::addFailure: the three parameter assertions, in order.
AddFailureParametersThrown(test, thrownException, isError) ==
  IF ~hasParametersExpectation["addFailure"] THEN ""
  ELSE IF ~(expectedTest["addFailure"] = test) THEN "bad test"
  ELSE IF ~(m_expectedException = thrownException) THEN "bad thrownException"
  ELSE IF ~(m_expectedIsError = isError) THEN "bad isError"
  ELSE ""

\* MockTestListener::addFailure(failure), failure being the record
\* (failedTest, thrownException, isError)
addFailure(test, thrownException, isError) ==
  LET e == "addFailure"
      call == IF AddFailureCounts THEN callCount[e] + 1 ELSE callCount[e]
  IN  /\ callCount' =
           [callCount EXCEPT ![e] = CounterAfterCall(call, expectedCallCount[e])]
      /\ thrown' =
           IF hasExpectation[e] /\ ~WithinExpected(call, expectedCallCount[e])
           THEN "unexpected call"
           ELSE AddFailureParametersThrown(test, thrownException, isError)
      /\ Notification(e, /\ hasParametersExpectation[e]
                         /\ \/ test # expectedTest[e]
                            \/ thrownException # m_expectedException
                            \/ isError # m_expectedIsError)

\* A verify that only looks for calls in excess.
MutVerifyAtMost(expected, actual) == actual <= expected

\* CPPUNIT_ASSERT_EQUAL_MESSAGE( message, expected, actual ) holds.
VerifyEqual(expected, actual) == expected = actual

\* A verify that compares the addFailure expectation with another counter.
MutVerifiedOtherCall == callCount["startTest"]

\* MockTestListener::verify: the counter compared with
\* m_expectedAddFailureCallCount.
VerifiedAddFailureCall == callCount["addFailure"]

\* MockTestListener::verify: the message of the first assertion that fails,
\* "" when all hold.
VerifyThrown ==
  LET Missing(e, actual) ==
        hasExpectation[e] /\ ~VerifyEqual(expectedCallCount[e], actual)
  IN  IF Missing("startTest", callCount["startTest"])
        THEN "missing startTest calls"
      ELSE IF Missing("endTest", callCount["endTest"])
        THEN "missing endTest calls"
      ELSE IF Missing("startSuite", callCount["startSuite"])
        THEN "missing startSuite calls"
      ELSE IF Missing("endSuite", callCount["endSuite"])
        THEN "missing endSuite calls"
      ELSE IF Missing("addFailure", VerifiedAddFailureCall)
        THEN "missing addFailure calls"
      ELSE IF m_hasExpectationForSomeFailure /\ ~(callCount["addFailure"] > 0)
        THEN "there was no call to MockTestListener::addFailure()"
      ELSE ""

\* A verify that starts the counters afresh.
MutVerifyResets == [e \in MockEvents |-> 0]

\* MockTestListener::verify: the counters when it returns or throws; it
\* assigns to none.
CallCountAfterVerify == callCount

\* MockTestListener::verify()
verify ==
  /\ thrown' = VerifyThrown
  /\ verified' = TRUE
  /\ callCount' = CallCountAfterVerify
  /\ UNCHANGED <<hasExpectation, hasParametersExpectation, expectedCallCount,
                 expectedTest, m_hasExpectationForSomeFailure,
                 m_expectedException, m_expectedIsError, notified,
                 setupsCalled, earlyNotified, lastMismatch, anyMismatch>>
  /\ OnlyMock

MockNext ==
  \/ \E t \in MockTests, x \in MockExceptions, b \in BOOLEAN :
       setExpectFailure3(t, x, b)
  \/ setExpectNoFailure
  \/ setExpectFailure0
  \/ \E n \in CallCounts : setExpectedAddFailureCall(n)
  \/ \E e \in TestEvents, t \in MockTests : setExpectTest(e, t)
  \/ \E e \in TestEvents, n \in CallCounts : setExpectedCall(e, n)
  \/ \E e \in TestEvents, t \in MockTests : notifyTest(e, t)
  \/ \E t \in MockTests, x \in MockExceptions, b \in BOOLEAN :
       addFailure(t, x, b)
  \/ verify

-----------------------------------------------------------------------------
(* Plug-in runner: DllPlugInTester.cpp *)

(* Bound of the model *)
MaxPlugIns == 2         \* plug-in file names on the command line

\* main's return codes
successReturnCode == 0
failureReturnCode == 1
badCommadLineReturnCode == 2

\* The command lines: argc < 2 or not, the parse failing or not, and what the
\* parser then answers (xmlFileName: whether getXmlFileName() is not empty).
\* useCoutStream and waitBeforeExit choose a stream and a pause; they change
\* nothing of the state modelled here.
CommandLines ==
  [argcOk : BOOLEAN, parseOk : BOOLEAN, xmlFileName : BOOLEAN,
   useBriefTestProgress : BOOLEAN, noTestProgress : BOOLEAN,
   useCompilerOutputter : BOOLEAN, useTextOutputter : BOOLEAN,
   useXmlOutputter : BOOLEAN, plugInCount : 0..MaxPlugIns]

\* The command line with no argument.
NoArguments ==
  [argcOk |-> FALSE, parseOk |-> FALSE, xmlFileName |-> FALSE,
   useBriefTestProgress |-> FALSE, noTestProgress |-> FALSE,
   useCompilerOutputter |-> FALSE, useTextOutputter |-> FALSE,
   useXmlOutputter |-> FALSE, plugInCount |-> 0]

\* The process is started with command line c.
RunStart(c) ==
  /\ pc = "main"
  /\ cmd = c
  /\ scope = <<>>
  /\ alive = {}
  /\ destroyed = <<>>
  /\ index = 0
  /\ plugIns = <<>>
  /\ unloaded = {}
  /\ listeners = <<>>
  /\ listenerCalls = <<>>
  /\ hookCalls = <<>>
  /\ written = <<>>
  /\ xmlStream = "unset"
  /\ ranTests = FALSE
  /\ wasSuccessful = FALSE
  /\ exception = ""
  /\ exitCode = -1
  /\ loadCalls = <<>>
  /\ reported = <<>>
  /\ runResult = ""

RunInit == \E c \in CommandLines : RunStart(c)

\* The steps of the runner leave the other parts alone.
OnlyRun == UNCHANGED <<suiteVars, mockVars, builderVars>>

\* A listener of runTests, and the listener plug-in number i registers.
HostListener(name) == [owner |-> "runTests", name |-> name, plugIn |-> -1]
PlugInListener(i) == [owner |-> "plugIn", name |-> "", plugIn |-> i]

\* An automatic object is constructed in a block of runTests.
Construct(objs, block) ==
  /\ scope' = scope \o [i \in 1..Len(objs) |-> [obj |-> objs[i], block |-> block]]
  /\ alive' = alive \cup {objs[i] : i \in 1..Len(objs)}

\* main, lines 217-236: the argc check and parser.parse().
main_CheckCommandLine ==
  /\ pc = "main"
  /\ IF ~cmd.argcOk \/ ~cmd.parseOk
     THEN /\ exitCode' = badCommadLineReturnCode
          /\ pc' = "exited"
     ELSE /\ pc' = "runTests"
          /\ UNCHANGED exitCode
  /\ UNCHANGED <<cmd, scope, alive, destroyed, index, plugIns, unloaded,
                 listeners, listenerCalls, hookCalls, written, xmlStream,
                 ranTests, wasSuccessful, exception, loadCalls, reported,
                 runResult>>
  /\ OnlyRun

\* runTests, lines 35-43: wasSuccessful, the PlugInManager, then in the inner
\* block the controller and the collector, which is the first listener.
runTests_SetUpResult ==
  /\ pc = "runTests"
  /\ wasSuccessful' = FALSE
  /\ scope' = <<[obj |-> "plugInManager", block |-> "function"],
                [obj |-> "controller", block |-> "inner"],
                [obj |-> "result", block |-> "inner"]>>
  /\ alive' = {"plugInManager", "controller", "result"}
  /\ listeners' = <<HostListener("result")>>
  /\ pc' = "outputters"
  /\ UNCHANGED <<cmd, destroyed, index, plugIns, unloaded, listenerCalls,
                 hookCalls, written, xmlStream, ranTests, exception, exitCode,
                 loadCalls, reported, runResult>>
  /\ OnlyRun

\* runTests, lines 45-57: the streams and the three outputters.
runTests_SetUpOutputters ==
  /\ pc = "outputters"
  /\ xmlStream' = IF cmd.xmlFileName THEN "file" ELSE "shared"
  /\ Construct(<<"xmlOutputter", "textOutputter", "compilerOutputter">>, "inner")
  /\ pc' = "listeners"
  /\ UNCHANGED <<cmd, destroyed, index, plugIns, unloaded, listeners,
                 listenerCalls, hookCalls, written, ranTests, wasSuccessful,
                 exception, exitCode, loadCalls, reported, runResult>>
  /\ OnlyRun

\* runTests, lines 59-65: the two progress listeners, one of them registered
\* at most.
runTests_SetUpListeners ==
  /\ pc = "listeners"
  /\ Construct(<<"briefListener", "dotListener">>, "inner")
  /\ listeners' =
       IF cmd.useBriefTestProgress
         THEN Append(listeners, HostListener("briefListener"))
       ELSE IF ~cmd.noTestProgress
         THEN Append(listeners, HostListener("dotListener"))
       ELSE listeners
  /\ index' = 0
  /\ pc' = "load"
  /\ UNCHANGED <<cmd, destroyed, plugIns, unloaded, listenerCalls, hookCalls,
                 written, xmlStream, ranTests, wasSuccessful, exception,
                 exitCode, loadCalls, reported, runResult>>
  /\ OnlyRun

\* PlugInManager::load: the plug-in is held by the manager, or the load fails
\* with a DynamicLibraryManagerException and the manager holds what it held.
PlugInManagerLoad(held, plugIn, ok) ==
  IF ok THEN Append(held, plugIn) ELSE held

\* A loop that goes on after a load that failed.
MutLoadFailureSkipped(ok) == "load"

\* runTests, line 71: where control is once plugInManager.load is over: in the
\* loop, or, the exception being caught nowhere in runTests, leaving the block.
AfterLoad(ok) == IF ok THEN "load" ELSE "leaveBlock"

\* runTests, lines 68-72: one turn of the loop, plugInManager.load of plug-in
\* number index, which may throw; ++index when the turn ends in the loop.
runTests_LoadPlugIn(ok) ==
  /\ pc = "load"
  /\ index < cmd.plugInCount
  /\ plugIns' = PlugInManagerLoad(plugIns, index, ok)
  /\ loadCalls' = Append(loadCalls, [plugIn |-> index, ok |-> ok])
  /\ pc' = AfterLoad(ok)
  /\ index' = IF AfterLoad(ok) = "load" THEN index + 1 ELSE index
  /\ exception' = IF ok THEN exception ELSE "DynamicLibraryManagerException"
  /\ UNCHANGED <<cmd, scope, alive, destroyed, unloaded, listeners,
                 listenerCalls, hookCalls, written, xmlStream, ranTests,
                 wasSuccessful, exitCode, reported, runResult>>
  /\ OnlyRun

\* runTests, lines 74-79: the loop is over; plugInManager.addListener, then
\* the runner and the registry's suite.
runTests_AddListener ==
  /\ pc = "load"
  /\ ~(index < cmd.plugInCount)
  /\ listenerCalls' = Append(listenerCalls, "addListener")
  /\ listeners' = listeners \o [i \in 1..Len(plugIns) |-> PlugInListener(plugIns[i])]
  /\ Construct(<<"runner">>, "inner")
  /\ pc' = "run"
  /\ UNCHANGED <<cmd, destroyed, index, plugIns, unloaded, hookCalls, written,
                 xmlStream, ranTests, wasSuccessful, exception, exitCode,
                 loadCalls, reported, runResult>>
  /\ OnlyRun

RunOutcomes == {"passed", "failed", "invalid_argument"}

\* runTests, lines 81-92: runner.run, which throws std::invalid_argument when
\* the test path does not resolve (caught and reported here), and
\* wasSuccessful = result.wasSuccessful() when it does not throw.
runTests_Run(outcome) ==
  /\ pc = "run"
  /\ ranTests' = TRUE
  /\ runResult' = outcome
  /\ wasSuccessful' =
       IF outcome = "invalid_argument" THEN wasSuccessful
       ELSE (outcome = "passed")
  /\ reported' =
       IF outcome = "invalid_argument"
       THEN Append(reported, "Failed to resolve test path")
       ELSE reported
  /\ pc' = "removeListener"
  /\ UNCHANGED <<cmd, scope, alive, destroyed, index, plugIns, unloaded,
                 listeners, listenerCalls, hookCalls, written, xmlStream,
                 exception, exitCode, loadCalls>>
  /\ OnlyRun

\* A runTests without its line 95.
MutRemoveListenerOmitted(calls) == calls

\* The call of line 95 on the record of the manager's listener calls.
RemoveListenerCall(calls) == Append(calls, "removeListener")

\* runTests, lines 94-95: plugInManager.removeListener( &controller ).
runTests_RemoveListener ==
  /\ pc = "removeListener"
  /\ listenerCalls' = RemoveListenerCall(listenerCalls)
  /\ listeners' =
       IF listenerCalls' = listenerCalls THEN listeners
       ELSE SelectSeq(listeners, LAMBDA l : l.owner = "runTests")
  /\ pc' = "write"
  /\ UNCHANGED <<cmd, scope, alive, destroyed, index, plugIns, unloaded,
                 hookCalls, written, xmlStream, ranTests, wasSuccessful,
                 exception, exitCode, loadCalls, reported, runResult>>
  /\ OnlyRun

\* An XML report whose hooks stay registered.
MutHooksLeftRegistered == <<"addXmlOutputterHooks", "write">>

\* runTests, lines 106-108: the three calls of the XML report.
XmlReportCalls == <<"addXmlOutputterHooks", "write", "removeXmlOutputterHooks">>

\* runTests, lines 97-112: the outputters selected write; the XML one between
\* addXmlOutputterHooks and removeXmlOutputterHooks; the file stream is
\* deleted.
runTests_Write ==
  /\ pc = "write"
  /\ written' =
       (IF cmd.useCompilerOutputter THEN <<"compilerOutputter">> ELSE <<>>)
       \o (IF cmd.useTextOutputter THEN <<"textOutputter">> ELSE <<>>)
       \o (IF cmd.useXmlOutputter THEN <<"xmlOutputter">> ELSE <<>>)
  /\ hookCalls' =
       IF cmd.useXmlOutputter THEN hookCalls \o XmlReportCalls ELSE hookCalls
  /\ xmlStream' = IF cmd.xmlFileName THEN "deleted" ELSE xmlStream
  /\ pc' = "leaveBlock"
  /\ UNCHANGED <<cmd, scope, alive, destroyed, index, plugIns, unloaded,
                 listeners, listenerCalls, ranTests, wasSuccessful, exception,
                 exitCode, loadCalls, reported, runResult>>
  /\ OnlyRun

\* Objects destroyed out of turn: the oldest first.
MutOldestFirst(objects) == objects[1]

\* Automatic objects are destroyed in the reverse order of their
\* construction, at the end of their block (lines 113 and 116) or when an
\* exception leaves it.
NextDestroyed(objects) == objects[Len(objects)]

\* What is left in scope once object o is destroyed.
Without(objects, o) == SelectSeq(objects, LAMBDA e : e # o)

\* The inner block of runTests is left, at line 113 or by the exception of
\* line 71: its objects are destroyed one by one.
runTests_LeaveBlock ==
  /\ pc = "leaveBlock"
  /\ {i \in 1..Len(scope) : scope[i].block = "inner"} # {}
  /\ LET o == NextDestroyed(scope)
     IN  /\ scope' = Without(scope, o)
         /\ alive' = alive \ {o.obj}
         /\ destroyed' = Append(destroyed, o.obj)
         /\ unloaded' =
              IF o.obj = "plugInManager"
              THEN {plugIns[i] : i \in 1..Len(plugIns)} ELSE unloaded
  /\ UNCHANGED <<pc, cmd, index, plugIns, listeners, listenerCalls, hookCalls,
                 written, xmlStream, ranTests, wasSuccessful, exception,
                 exitCode, loadCalls, reported, runResult>>
  /\ OnlyRun

\* A main that answers a failure with the code of a bad command line.
MutReturnCodeBadCommandLine(ok) ==
  IF ok THEN successReturnCode ELSE badCommadLineReturnCode

\* main, line 255: return wasSuccessful ? successReturnCode : failureReturnCode.
ReturnCode(ok) == IF ok THEN successReturnCode ELSE failureReturnCode

\* runTests returns, at line 115 or by the exception: the PlugInManager is
\* destroyed, which unloads the plug-ins' libraries.  Back in main (lines
\* 238-255) wasSuccessful is what runTests returned, or stays false when the
\* DynamicLibraryManagerException is caught and reported; the exit code
\* follows it.
runTests_Return ==
  /\ pc = "leaveBlock"
  /\ {i \in 1..Len(scope) : scope[i].block = "inner"} = {}
  /\ LET ok == IF exception = "" THEN wasSuccessful ELSE FALSE
     IN  /\ wasSuccessful' = ok
         /\ exitCode' = ReturnCode(ok)
  /\ reported' =
       IF exception = "DynamicLibraryManagerException"
       THEN Append(reported, "Failed to load test plug-in")
       ELSE reported
  /\ scope' = <<>>
  /\ alive' = alive \ {scope[i].obj : i \in 1..Len(scope)}
  /\ destroyed' = destroyed \o [i \in 1..Len(scope) |-> scope[Len(scope) + 1 - i].obj]
  /\ unloaded' =
       IF \E i \in 1..Len(scope) : scope[i].obj = "plugInManager"
       THEN unloaded \cup {plugIns[i] : i \in 1..Len(plugIns)} ELSE unloaded
  /\ exception' = ""
  /\ pc' = "exited"
  /\ UNCHANGED <<cmd, index, plugIns, listeners, listenerCalls, hookCalls,
                 written, xmlStream, ranTests, loadCalls, runResult>>
  /\ OnlyRun

RunNext ==
  \/ main_CheckCommandLine
  \/ runTests_SetUpResult
  \/ runTests_SetUpOutputters
  \/ runTests_SetUpListeners
  \/ \E ok \in BOOLEAN : runTests_LoadPlugIn(ok)
  \/ runTests_AddListener
  \/ \E o \in RunOutcomes : runTests_Run(o)
  \/ runTests_RemoveListener
  \/ runTests_Write
  \/ runTests_LeaveBlock
  \/ runTests_Return

-----------------------------------------------------------------------------
(* Suite builder: TestSuiteBuilder.h *)

(* Bound of the model *)
MaxCallsOnNothing == 1  \* calls on a builder that holds no suite

\* The names given to suites and to test callers.
SuiteNames == {"A", "B"}
MethodNames == {"m", "n"}

\* No builder yet; the suites there are carry the name they were constructed
\* with (TestSuite::TestSuite(name)).
BuilderInit ==
  /\ builder = "none"
  /\ m_suite = NULL
  /\ m_name = [s \in Suites |-> IF s = 1 THEN "A" ELSE "B"]
  /\ callerName = [t \in Leaves |-> ""]
  /\ built = NULL
  /\ taken = {}
  /\ builderCalls = <<>>

\* The steps of the builder leave the mock and the runner alone, and of the
\* tree all but the suites' children and the deletions.
OnlyBuilder ==
  UNCHANGED <<mockVars, runVars, phase, stack, m_stop, ran, events, finished>>

\* A test object nothing was done with yet.
Pristine(t) ==
  /\ deleted[t] = 0
  /\ Owners(t) = {}
  /\ \A s \in Suites : \A i \in 1..Len(added[s]) : added[s][i] # t
  /\ t \in Suites => (m_tests[t] = <<>> /\ added[t] = <<>>)
  /\ t \in Leaves => callerName[t] = ""

\* TestSuiteBuilder( TestSuite *suite ) : m_suite( suite ), on a suite the
\* caller holds (alive, owned by no suite) or on a null pointer.
Builder_ConstructOnSuite(suite) ==
  /\ builder = "none"
  /\ suite # NULL => (deleted[suite] = 0 /\ Owners(suite) = {})
  /\ builder' = "alive"
  /\ m_suite' = suite
  /\ built' = suite
  /\ UNCHANGED <<m_name, callerName, taken, builderCalls, m_tests, added,
                 deleted>>
  /\ OnlyBuilder

\* TestSuiteBuilder( std::string name ) : m_suite( new TestSuite(name) ); the
\* new suite is object s.
Builder_ConstructOnName(s, name) ==
  /\ builder = "none"
  /\ Pristine(s)
  /\ builder' = "alive"
  /\ m_name' = [m_name EXCEPT ![s] = name]
  /\ m_suite' = s
  /\ built' = s
  /\ UNCHANGED <<callerName, taken, builderCalls, m_tests, added, deleted>>
  /\ OnlyBuilder

\* TestSuiteBuilder::suite: m_suite.get().
Builder_suite == m_suite

\* A takeSuite that goes on holding the suite.
MutKeepsPointer(held) == held

\* What an auto_ptr holds after release().
Released(held) == NULL

\* TestSuiteBuilder::takeSuite: return m_suite.release().
Builder_takeSuite ==
  /\ builder = "alive"
  /\ taken' = taken \cup {m_suite}
  /\ m_suite' = Released(m_suite)
  /\ UNCHANGED <<builder, m_name, callerName, built, builderCalls, m_tests,
                 added, deleted>>
  /\ OnlyBuilder

\* What a call through the empty auto_ptr (m_suite-> with no suite held) may
\* do: end the run, or return with no effect on the suites.
NullDereference == {"crash", "return"}

\* The calls made on the builder while it held no suite.
CallsOnNothing == SelectSeq(builderCalls, LAMBDA c : c.suite = NULL)

\* The call m_suite->... of lines 36 and 41 when m_suite holds nothing.
Builder_CallOnNothing(outcome) ==
  /\ builder = "alive"
  /\ m_suite = NULL
  /\ Len(CallsOnNothing) < MaxCallsOnNothing
  /\ builder' = IF outcome = "crash" THEN "crashed" ELSE builder
  /\ builderCalls' = Append(builderCalls, [test |-> NULL, suite |-> NULL,
                                           name |-> ""])
  /\ UNCHANGED <<m_suite, m_name, callerName, built, taken, m_tests, added,
                 deleted>>
  /\ OnlyBuilder

\* TestSuiteBuilder::addTest( test ): m_suite->addTest( test ).
Builder_addTest(test) ==
  /\ builder = "alive"
  /\ m_suite # NULL
  /\ AddTestTo(m_suite, test)
  /\ builderCalls' = Append(builderCalls, [test |-> test, suite |-> m_suite,
                                           name |-> ""])
  /\ UNCHANGED <<builder, m_suite, m_name, callerName, built, taken, deleted>>
  /\ OnlyBuilder

\* TestSuiteBuilder::addTestCaller: m_suite->getName() + "." + name.
TestCallerName(suiteName, name) == suiteName \o "." \o name

\* TestSuiteBuilder::addTestCaller( name, testMethod ): the test caller made
\* is leaf test; it is added with addTest.
Builder_addTestCaller(test, name) ==
  /\ builder = "alive"
  /\ m_suite # NULL
  /\ test \in Leaves
  /\ Pristine(test)
  /\ callerName' = [callerName EXCEPT ![test] =
                      TestCallerName(m_name[m_suite], name)]
  /\ AddTestTo(m_suite, test)
  /\ builderCalls' = Append(builderCalls, [test |-> test, suite |-> m_suite,
                                           name |-> name])
  /\ UNCHANGED <<builder, m_suite, m_name, built, taken, deleted>>
  /\ OnlyBuilder

\* ~TestSuiteBuilder: the auto_ptr deletes the suite it holds.
Builder_Destroy ==
  /\ builder = "alive"
  /\ LET after == Delete(Heap, m_suite)
     IN  /\ deleted' = after.del
         /\ m_tests' = after.kids
  /\ builder' = "destroyed"
  /\ UNCHANGED <<m_suite, m_name, callerName, built, taken, builderCalls,
                 added>>
  /\ OnlyBuilder

\* Before it constructs the builder, the caller builds the suites it will
\* hand to it.
Builder_CallerAddTest(s, test) ==
  /\ builder = "none"
  /\ addTest(s, test)

BuilderNext ==
  \/ \E s \in Suites \cup {NULL} : Builder_ConstructOnSuite(s)
  \/ \E s \in Suites, n \in SuiteNames : Builder_ConstructOnName(s, n)
  \/ Builder_takeSuite
  \/ \E o \in NullDereference : Builder_CallOnNothing(o)
  \/ \E t \in Tests : Builder_addTest(t)
  \/ \E t \in Leaves, n \in MethodNames : Builder_addTestCaller(t, n)
  \/ Builder_Destroy
  \/ \E s \in Suites, t \in Tests : Builder_CallerAddTest(s, t)

-----------------------------------------------------------------------------
(* Specifications *)

\* The test tree and the mock on their own: the runner is not started.
Init == SuiteInit /\ MockInit /\ RunStart(NoArguments) /\ BuilderInit

\* The runner started on any command line.
InitRun == SuiteInit /\ MockInit /\ RunInit /\ BuilderInit

\* A builder and the suites it is given.
SpecBuilder == Init /\ [][BuilderNext]_vars

SpecSuite == Init /\ [][SuiteNext]_vars

\* The tree built and torn down, not run.
SpecTree == Init /\ [][TreeNext]_vars

SpecMock == Init /\ [][MockNext]_vars

SpecRun == InitRun /\ [][RunNext]_vars


-----------------------------------------------------------------------------
(* Claims about the composite test tree *)

IsPrefix(p, q) == Len(p) <= Len(q) /\ SubSeq(q, 1, Len(p)) = p

RECURSIVE SeqSum(_)
SeqSum(q) == IF q = <<>> THEN 0 ELSE Head(q) + SeqSum(Tail(q))

\* C1: once shouldStop() is true, no suite delegates run to a further child:
\* a step taken with the flag set leaves the record of started children as
\* it is.
C1_StopHaltsDelegation == [][m_stop => ran' = ran]_vars

\* A suite that returned with the flag set after it started some, but not
\* all, of its children.
C1_Witness ==
  \E s \in Suites :
    /\ s \in finished
    /\ m_stop
    /\ Len(ran[s]) >= 1
    /\ Len(ran[s]) < Len(m_tests[s])

\* C2: the children a suite ran are a prefix of the tests in the order they
\* were added, and a suite that returned while shouldStop() was still false
\* ran every one of them, in that order.
C2_RunOrderIsInsertionOrder ==
  \A s \in Suites :
    /\ IsPrefix(ran[s], added[s])
    /\ (s \in finished /\ ~m_stop) => ran[s] = added[s]

C2_Witness ==
  \E s \in Suites :
    /\ s \in finished
    /\ ~m_stop
    /\ Len(added[s]) >= 2
    /\ ran[s] = added[s]

\* C3: a failure or an error of a child does not end the suite: while
\* shouldStop() is false, a suite with a failed child that is not its last
\* either has started the next sibling or is still in its loop, and a run
\* that is over has returned through every suite it entered.
C3_FailureDoesNotAbortSuite ==
  /\ \A s \in Suites : \A j \in 1..Len(ran[s]) :
       (ChildFailed(ran[s][j]) /\ j < Len(m_tests[s]) /\ ~m_stop)
         => \/ Len(ran[s]) > j
            \/ \E k \in 1..Len(stack) :
                 stack[k].suite = s /\ stack[k].it <= Len(m_tests[s])
  /\ phase = "done" =>
       \A s \in Suites : (ran[s] # <<>>) => s \in finished

C3_Witness ==
  /\ phase = "done"
  /\ \E s \in Suites :
       /\ Len(ran[s]) >= 2
       /\ ChildFailed(ran[s][1])
       /\ ran[s] = m_tests[s]

\* C4: countTestCases of a suite is the sum of countTestCases of its
\* children: 1 for a leaf, 0 for the empty suite, the number of leaves below
\* it in general.
C4_CountIsSumOfChildren ==
  /\ \A t \in Leaves : countTestCases(t) = 1
  /\ \A s \in Suites :
       /\ countTestCases(s) =
            SeqSum([i \in 1..Len(m_tests[s]) |-> countTestCases(m_tests[s][i])])
       /\ countTestCases(s) = Cardinality(Descendants(s) \cap Leaves)
       /\ (m_tests[s] = <<>>) => countTestCases(s) = 0

C4_Witness ==
  \E s \in Suites : \E i \in 1..Len(m_tests[s]) :
    /\ m_tests[s][i] \in Suites
    /\ countTestCases(m_tests[s][i]) >= 1
    /\ countTestCases(s) >= 2

\* The test objects handed to addTest of suite s, and the ones it holds.
Added(s) == {added[s][i] : i \in 1..Len(added[s])} \ {NULL}
Children(s) == {m_tests[s][i] : i \in 1..Len(m_tests[s])} \ {NULL}

C15_NoNullChildren ==
  \A s \in Suites : \A i \in 1..Len(m_tests[s]) : m_tests[s][i] # NULL

\* C16: for every suite whose run has returned, the TestResult received a
\* startSuite event for it before every event of the tests below it, and an
\* endSuite event for it after them.
C16_SuiteEventsDispatched ==
  \A s \in finished :
    \E i, j \in 1..Len(events) :
      /\ i < j
      /\ events[i].ev = "startSuite" /\ events[i].test = s
      /\ events[j].ev = "endSuite" /\ events[j].test = s
      /\ \A k \in 1..Len(events) :
           events[k].test \in Descendants(s) => (i < k /\ k < j)

RECURSIVE AddedBelow(_)
\* The test objects handed, directly or not, to the tree of test t.
AddedBelow(t) ==
  IF t \in Leaves THEN {}
  ELSE Added(t) \cup UNION {AddedBelow(c) : c \in Added(t)}

\* The tests of the calls made on the builder while it held a suite.
BuilderTests ==
  LET calls == SelectSeq(builderCalls, LAMBDA c : c.suite # NULL)
  IN  [i \in 1..Len(calls) |-> calls[i].test]

\* C21: until takeSuite() is called the builder holds the suite it was
\* constructed on; addTest and addTestCaller append their test to that suite,
\* in call order, a test caller being named suiteName + "." + name; the
\* destruction of the builder deletes the suite and every test below it
\* exactly once when takeSuite() was not called, and deletes nothing after
\* it; after takeSuite() suite() is null and a call that adds a test changes
\* no suite.
C21_BuilderOwnsUntilTaken ==
  [][/\ (builder' = "alive" /\ taken' = {}) =>
          /\ m_suite' = built'
          /\ built' # NULL =>
               /\ Len(BuilderTests') <= Len(m_tests'[built'])
               /\ SubSeq(m_tests'[built'],
                         Len(m_tests'[built']) - Len(BuilderTests') + 1,
                         Len(m_tests'[built'])) = BuilderTests'
     /\ (builderCalls' # builderCalls) =>
          LET c == builderCalls'[Len(builderCalls')]
          IN  IF m_suite = NULL
              THEN c.suite = NULL /\ m_tests' = m_tests
              ELSE /\ c.suite = m_suite
                   /\ m_tests' = [m_tests EXCEPT ![m_suite] = Append(@, c.test)]
                   /\ c.name # "" =>
                        callerName'[c.test] = m_name[m_suite] \o "." \o c.name
     /\ taken' # {} => (m_suite' = NULL /\ Builder_suite' = NULL)
     /\ (builder = "alive" /\ builder' = "destroyed") =>
          IF taken = {} /\ built # NULL
          THEN /\ \A t \in {built} \cup AddedBelow(built) : deleted'[t] = 1
               /\ \A t \in Tests \ ({built} \cup AddedBelow(built)) :
                    deleted'[t] = deleted[t]
          ELSE deleted' = deleted /\ m_tests' = m_tests
     /\ \A t \in Tests : deleted'[t] <= 1]_vars

\* A builder that was not asked for its suite has been destroyed after an
\* addTest and an addTestCaller, and the suite and both tests are deleted.
C21_Witness ==
  /\ builder = "destroyed"
  /\ taken = {}
  /\ built # NULL
  /\ Len(builderCalls) >= 2
  /\ \E i \in 1..Len(builderCalls) : builderCalls[i].name # ""
  /\ \E i \in 1..Len(builderCalls) : builderCalls[i].name = ""
  /\ \A i \in 1..Len(builderCalls) : deleted[builderCalls[i].test] = 1
  /\ deleted[built] = 1

-----------------------------------------------------------------------------
(* Claims about the expectation engine *)

\* Event e received one more notification in this step.
Notified(e) == notified'[e] = notified[e] + 1

\* Every count expectation is met by the observed counter.
CountsMatch ==
  \A e \in MockEvents : hasExpectation[e] => callCount[e] = expectedCallCount[e]

\* C5: a notification of an event that has a count expectation N, set before
\* the event was first notified, raises "unexpected call" inside the call
\* exactly when it is notification number N+1 or later: the first N do not.
C5_OverCallFailsInCall ==
  [][\A e \in MockEvents :
       (Notified(e) /\ hasExpectation[e] /\ e \notin earlyNotified')
         => /\ (thrown' = "unexpected call") <=> (notified'[e] > expectedCallCount[e])
            /\ ~verified']_vars

\* Notification N+1 of an event expected N >= 1 times has just failed.
C5_Witness ==
  \E e \in MockEvents :
    /\ hasExpectation[e]
    /\ e \notin earlyNotified
    /\ expectedCallCount[e] >= 1
    /\ notified[e] = expectedCallCount[e] + 1
    /\ ~verified
    /\ thrown = "unexpected call"

C7_ParameterMismatchFailsInCall ==
  [][\A e \in MockEvents :
       (Notified(e) /\ lastMismatch')
         => /\ thrown' \in {"unexpected call", "bad test", "bad thrownException",
                            "bad isError"}
            /\ ~verified']_vars

\* An addFailure call has just failed on its isError flag alone.
C7_Witness ==
  /\ hasParametersExpectation["addFailure"]
  /\ lastMismatch
  /\ ~verified
  /\ thrown = "bad isError"

\* C8, as stated: after a notification with arguments other than expected,
\* and with the counts met, verify() fails.
C8_VerifyReportsMismatch ==
  (verified /\ anyMismatch /\ CountsMatch) => thrown # ""

\* C8, amended: verify() does not report a parameter mismatch: after a
\* notification with arguments other than expected, verify() passes as soon
\* as the counts are met (and, when some failure is expected, an addFailure
\* call was counted); it fails only with one of its count messages.
C8_VerifyIgnoresMismatch ==
  (verified /\ anyMismatch)
    => /\ ( /\ CountsMatch
            /\ m_hasExpectationForSomeFailure => callCount["addFailure"] > 0 )
          => thrown = ""
       /\ thrown \notin {"bad test", "bad thrownException", "bad isError"}

\* verify() has passed although a notification carried a wrong argument.
C8_Witness ==
  /\ verified
  /\ anyMismatch
  /\ \E e \in MockEvents : hasParametersExpectation[e]
  /\ thrown = ""

\* C9: when setExpectFailure() is the only setExpect* method called, and no
\* addFailure notification came before it, no notification fails, and
\* verify() passes exactly when at least one addFailure notification was
\* received.
C9_SomeFailureMode ==
  [][(setupsCalled = {"setExpectFailure0"} /\ setupsCalled' = setupsCalled)
       => /\ Notified("addFailure") => thrown' = ""
          /\ (verified' /\ "addFailure" \notin earlyNotified)
               => ((thrown' = "") <=> (notified'["addFailure"] > 0))]_vars

\* verify() has passed in that mode after two addFailure notifications.
C9_Witness ==
  /\ setupsCalled = {"setExpectFailure0"}
  /\ "addFailure" \notin earlyNotified
  /\ notified["addFailure"] = 2
  /\ verified
  /\ thrown = ""

\* What the setExpect* methods assign: everything but the observed counters.
ExpectationFields ==
  <<hasExpectation, hasParametersExpectation, expectedCallCount, expectedTest,
    m_hasExpectationForSomeFailure, m_expectedException, m_expectedIsError>>

\* C18: a verify() step changes no field of the mock, and a verify() that
\* follows a verify() gives the same outcome; an observed counter changes
\* only in a notification of its event, and the expectation fields only in a
\* setExpect* call.
C18_VerifyOnlyReads ==
  [][/\ verified' => mockFields' = mockFields
     /\ (verified /\ verified') => thrown' = thrown
     /\ \A e \in MockEvents : callCount'[e] # callCount[e] => Notified(e)
     /\ ExpectationFields' # ExpectationFields
          => (~verified' /\ notified' = notified)]_vars

\* verify() has failed on a count that is short of the expectation, after a
\* notification was counted.
C18_Witness ==
  /\ verified
  /\ thrown # ""
  /\ \E e \in MockEvents :
       hasExpectation[e] /\ callCount[e] = 1 /\ expectedCallCount[e] = 2

\* C19: a counter never decreases and is incremented by the notification
\* that fails as an over-call; when an event that has a count expectation,
\* set before its first notification, was notified more often than the count
\* expected now, its counter exceeds that count and verify() fails.
C19_OverCallNotMasked ==
  [][\A e \in MockEvents :
       /\ callCount'[e] >= callCount[e]
       /\ (Notified(e) /\ thrown' = "unexpected call")
            => callCount'[e] = callCount[e] + 1
       /\ (hasExpectation'[e] /\ e \notin earlyNotified'
             /\ notified'[e] > expectedCallCount'[e])
            => /\ callCount'[e] > expectedCallCount'[e]
               /\ VerifyThrown' # ""
               /\ verified' => thrown' # ""]_vars

\* verify() has failed after the second notification of an event expected
\* once.
C19_Witness ==
  \E e \in MockEvents :
    /\ hasExpectation[e]
    /\ e \notin earlyNotified
    /\ expectedCallCount[e] = 1
    /\ notified[e] = 2
    /\ verified
    /\ thrown # ""

\* C20: a notification of an event for which no setExpect* method was called
\* does not fail and is not counted, whatever was set for other events; and
\* as long as no setExpect* method was called at all, every counter is 0, no
\* call has failed and verify() passes.
C20_NoExpectationNoConstraint ==
  [][/\ \A e \in MockEvents :
          (Notified(e) /\ setupsCalled \cap SetupsOf(e) = {})
            => (thrown' = "" /\ callCount' = callCount)
     /\ setupsCalled' = {}
          => /\ callCount' = [e \in MockEvents |-> 0]
             /\ thrown' = ""
             /\ VerifyThrown' = ""]_vars

\* verify() has passed on a mock without expectations that was notified
\* twice.
C20_Witness ==
  /\ setupsCalled = {}
  /\ \E e \in MockEvents : notified[e] >= 1
  /\ earlyNotified # {}
  /\ verified
  /\ thrown = ""

-----------------------------------------------------------------------------
(* Claims about the plug-in runner *)

\* The objects of runTests that may hold memory allocated by a plug-in.
PlugInMemoryHolders ==
  {"controller", "result", "xmlOutputter", "textOutputter",
   "compilerOutputter", "briefListener", "dotListener", "runner"}

Destroyed == {destroyed[i] : i \in 1..Len(destroyed)}

\* C10: when the PlugInManager is destroyed, and when a plug-in library is
\* unloaded, none of the controller, the collector, the outputters, the
\* progress listeners and the runner is alive: each one that was constructed
\* was destroyed before, whether runTests returns or a load failure leaves it.
C10_HoldersDestroyedBeforeUnload ==
  ("plugInManager" \in Destroyed \/ unloaded # {})
    => /\ alive \cap PlugInMemoryHolders = {}
       /\ \A i \in 1..Len(destroyed) :
            destroyed[i] = "plugInManager" =>
              \A j \in 1..Len(destroyed) :
                destroyed[j] \in PlugInMemoryHolders => j < i

\* runTests was left by the failure of the second load, and the library of
\* the first plug-in has been unloaded.
C10_Witness ==
  /\ pc = "exited"
  /\ Len(plugIns) = 1
  /\ index < cmd.plugInCount
  /\ unloaded # {}
  /\ "plugInManager" \in Destroyed
  /\ "controller" \in Destroyed

\* Some PlugInManager::load call has failed.
LoadFailed == \E k \in 1..Len(loadCalls) : ~loadCalls[k].ok

\* C11: plug-ins are loaded in command-line order; once the load of plug-in i
\* has failed no further load is attempted, no plug-in listener is
\* registered, no test is run, the exception leaves runTests, and main
\* reports it and exits as unsuccessful.
C11_LoadIsFailFast ==
  /\ \A k \in 1..Len(loadCalls) :
       /\ loadCalls[k].plugIn = k - 1
       /\ ~loadCalls[k].ok => k = Len(loadCalls)
  /\ LoadFailed =>
       /\ listenerCalls = <<>>
       /\ \A i \in 1..Len(listeners) : listeners[i].owner = "runTests"
       /\ ~ranTests
       /\ runResult = ""
       /\ pc \in {"leaveBlock", "exited"}
       /\ pc = "leaveBlock" => exception = "DynamicLibraryManagerException"
       /\ pc = "exited" =>
            /\ reported = <<"Failed to load test plug-in">>
            /\ ~wasSuccessful
            /\ exitCode = failureReturnCode

\* The first of two plug-ins failed to load and main has exited.
C11_Witness ==
  /\ pc = "exited"
  /\ cmd.plugInCount = 2
  /\ loadCalls = <<[plugIn |-> 0, ok |-> FALSE]>>
  /\ exitCode = 1

\* C12: main exits with 0 exactly when the command line parsed, every plug-in
\* loaded, the test path resolved and the collector reports success; with 1
\* when a test failed, a plug-in failed to load or the test path did not
\* resolve; with 2 when the command line is malformed, and then no plug-in
\* was loaded and no test was run.
C12_ExitCode ==
  pc = "exited" =>
    LET parsed == cmd.argcOk /\ cmd.parseOk
        loaded == Len(loadCalls) = cmd.plugInCount /\ ~LoadFailed
    IN  /\ exitCode \in {0, 1, 2}
        /\ (exitCode = 0) <=> (parsed /\ loaded /\ runResult = "passed")
        /\ (exitCode = 1) <=>
             (parsed /\ (LoadFailed \/ runResult \in {"failed", "invalid_argument"}))
        /\ (exitCode = 2) <=> ~parsed
        /\ ~parsed => (loadCalls = <<>> /\ plugIns = <<>> /\ ~ranTests)

\* main has exited with 0 after two plug-ins loaded and the tests passed.
C12_Witness ==
  /\ pc = "exited"
  /\ exitCode = 0
  /\ Len(plugIns) = 2
  /\ runResult = "passed"

\* C13: when runner.run is called, addListener has been called exactly once
\* and removeListener not yet; removeListener is called once the run is over,
\* exactly once, also when the test path did not resolve, and never without
\* the addListener before it.
C13_ListenerPairing ==
  [][/\ (ranTests' /\ ~ranTests)
          => (listenerCalls = <<"addListener">> /\ listenerCalls' = listenerCalls)
     /\ (listenerCalls' # listenerCalls /\ listenerCalls # <<>>)
          => (ranTests /\ listenerCalls = <<"addListener">>)
     /\ IsPrefix(listenerCalls', <<"addListener", "removeListener">>)
     /\ (ranTests' /\ pc' \in {"write", "leaveBlock", "exited"})
          => listenerCalls' = <<"addListener", "removeListener">>]_vars

\* runTests is over after a run whose test path did not resolve.
C13_Witness ==
  /\ pc = "exited"
  /\ runResult = "invalid_argument"
  /\ listenerCalls = <<"addListener", "removeListener">>

\* C17, as stated: whenever runTests is executed with the XML outputter
\* selected, the hooks are added, the report written and the hooks removed.
C17_HooksWheneverSelected ==
  (pc = "exited" /\ cmd.argcOk /\ cmd.parseOk /\ cmd.useXmlOutputter)
    => hookCalls = <<"addXmlOutputterHooks", "write", "removeXmlOutputterHooks">>

\* C17, amended: when the XML outputter is selected and every plug-in loads,
\* runTests calls addXmlOutputterHooks once, writes the XML report, calls
\* removeXmlOutputterHooks once, all while the outputter and the plug-in
\* manager are alive; when the outputter is not selected, or a load failed,
\* no hook operation is called.  No execution ends with hooks registered.
C17_HooksPaired ==
  [][/\ (hookCalls' # hookCalls)
          => /\ cmd.useXmlOutputter
             /\ hookCalls = <<>>
             /\ {"xmlOutputter", "plugInManager"} \subseteq alive
             /\ {"xmlOutputter", "plugInManager"} \cap Destroyed = {}
     /\ hookCalls' \in {<<>>, <<"addXmlOutputterHooks", "write",
                                "removeXmlOutputterHooks">>}
     /\ (pc' = "exited" /\ cmd.argcOk /\ cmd.parseOk)
          => ((hookCalls' # <<>>) <=> (cmd.useXmlOutputter /\ ~LoadFailed'))]_vars

\* The XML report was written between the two hook calls, and the outputter
\* and the manager have been destroyed since.
C17_Witness ==
  /\ pc = "exited"
  /\ cmd.useXmlOutputter
  /\ hookCalls = <<"addXmlOutputterHooks", "write", "removeXmlOutputterHooks">>
  /\ {"xmlOutputter", "plugInManager"} \subseteq Destroyed

====
